---- MODULE Spec2Model ----
(***************************************************************************)
(* Model of image_mosaic (src/src/asp/Tools/image_mosaic.cc): argument     *)
(* handling, the chaining of pairwise affine transforms into a layout,     *)
(* the centerline blend weights and the tiled mosaic view.                 *)
(*                                                                         *)
(* Numbers.  Coordinates, sizes and pixel values are integers.  Blend      *)
(* weights are reals of the form  r + e*TOL  with r, e rational and TOL    *)
(* the 1e-8 tolerance of the line weights; they are kept as the pair       *)
(* [r, e] and multiplied to first order in TOL.  A rational is <<n, d>>    *)
(* in lowest terms with d > 0.                                             *)
(***************************************************************************)
EXTENDS Integers, Sequences, FiniteSets, TLC

(***************************************************************************)
(* Bounds of the model.                                                    *)
(***************************************************************************)
MaxImages == 3
MaxW == 4
MaxH == 3
MaxShift == 2
MaxRadius == 1

(***************************************************************************)
(* Integer and rational helpers.                                           *)
(***************************************************************************)
Abs(x) == IF x < 0 THEN -x ELSE x
Min2(a, b) == IF a < b THEN a ELSE b
Max2(a, b) == IF a > b THEN a ELSE b

RECURSIVE Gcd(_, _)
Gcd(a, b) == IF b = 0 THEN a ELSE Gcd(b, a % b)

Rat(n, d) ==
  LET g == Gcd(Abs(n), Abs(d))
      s == IF d < 0 THEN -1 ELSE 1
  IN  IF n = 0 THEN <<0, 1>> ELSE <<(s * n) \div g, (s * d) \div g>>
RatInt(k) == <<k, 1>>
RatAdd(x, y) == Rat(x[1] * y[2] + y[1] * x[2], x[2] * y[2])
RatSub(x, y) == Rat(x[1] * y[2] - y[1] * x[2], x[2] * y[2])
RatMul(x, y) == Rat(x[1] * y[1], x[2] * y[2])
RatDiv(x, y) == Rat(x[1] * y[2], x[2] * y[1])
RatAbs(x) == <<Abs(x[1]), x[2]>>
RatLess(x, y) == x[1] * y[2] < y[1] * x[2]
RatLeq(x, y) == x[1] * y[2] <= y[1] * x[2]

\* r + e*TOL
Real(r, e) == [r |-> r, e |-> e]
RealInt(k) == Real(RatInt(k), RatInt(0))
RealZero == RealInt(0)
RealAdd(x, y) == Real(RatAdd(x.r, y.r), RatAdd(x.e, y.e))
RealScale(k, x) == Real(RatMul(RatInt(k), x.r), RatMul(RatInt(k), x.e))
RealLess(x, y) == RatLess(x.r, y.r) \/ (x.r = y.r /\ RatLess(x.e, y.e))
RealMin(x, y) == IF RealLess(y, x) THEN y ELSE x
RealMax(x, y) == IF RealLess(x, y) THEN y ELSE x
\* x / y for y > 0, rounded to the nearest multiple-free rational: the part
\* of the quotient that does not vanish with TOL.
RealQuot(x, y) ==
  IF y.r # <<0, 1>> THEN RatDiv(x.r, y.r) ELSE RatDiv(x.e, y.e)

(***************************************************************************)
(* vw::BBox2i / BBox2f as used by the tool: min inclusive, max exclusive   *)
(* for the integer box.                                                    *)
(***************************************************************************)
BBox(x0, y0, x1, y1) == [minx |-> x0, miny |-> y0, maxx |-> x1, maxy |-> y1]
\* BBox2i(): min at the largest, max at the smallest representable value
EmptyBBox == BBox(1000000, 1000000, -1000000, -1000000)
BBoxWidth(b) == b.maxx - b.minx
BBoxHeight(b) == b.maxy - b.miny
BBoxSize(b) == <<BBoxWidth(b), BBoxHeight(b)>>
BBoxEmpty(b) == b.minx >= b.maxx \/ b.miny >= b.maxy
\* BBox2i::grow(point): the point becomes contained, so max = point + 1
BBoxGrow(b, p) ==
  BBox(Min2(b.minx, p[1]), Min2(b.miny, p[2]),
       IF p[1] >= b.maxx THEN p[1] + 1 ELSE b.maxx,
       IF p[2] >= b.maxy THEN p[2] + 1 ELSE b.maxy)
BBoxExpand(b, k) == BBox(b.minx - k, b.miny - k, b.maxx + k, b.maxy + k)
BBoxCrop(b, c) ==
  BBox(Max2(b.minx, c.minx), Max2(b.miny, c.miny),
       Min2(b.maxx, c.maxx), Min2(b.maxy, c.maxy))
BBoxIntersects(b, c) ==
  ~(b.minx >= c.maxx \/ b.maxx <= c.minx \/ b.miny >= c.maxy \/ b.maxy <= c.miny)
BBoxShift(b, v) == BBox(b.minx - v[1], b.miny - v[2], b.maxx - v[1], b.maxy - v[2])
BBoxPixels(b) == (b.minx .. (b.maxx - 1)) \X (b.miny .. (b.maxy - 1))

(***************************************************************************)
(* 3x3 homogeneous matrices and vw::AffineTransform.                       *)
(***************************************************************************)
Mat(a, b, c, d, tx, ty) == <<<<a, b, tx>>, <<c, d, ty>>, <<0, 0, 1>>>>
identity_matrix == Mat(1, 0, 0, 1, 0, 0)
MatMul(A, B) ==
  [r \in 1..3 |-> [c \in 1..3 |->
      A[r][1] * B[1][c] + A[r][2] * B[2][c] + A[r][3] * B[3][c]]]
\* AffineTransform(m, t) built from the entries of a 3x3 matrix
AffineTransform(A) ==
  [m00 |-> A[1][1], m01 |-> A[1][2], m10 |-> A[2][1], m11 |-> A[2][2],
   t0 |-> A[1][3], t1 |-> A[2][3]]
\* forward(p) = m*p + t; reverse(p) = m^-1*(p - t), for a determinant of
\* 1 or -1 so that pixels map to pixels
Forward(tf, p) ==
  <<tf.m00 * p[1] + tf.m01 * p[2] + tf.t0, tf.m10 * p[1] + tf.m11 * p[2] + tf.t1>>
Reverse(tf, p) ==
  LET dt == tf.m00 * tf.m11 - tf.m01 * tf.m10
      x == p[1] - tf.t0
      y == p[2] - tf.t1
  IN  <<(tf.m11 * x - tf.m01 * y) * dt, (tf.m00 * y - tf.m10 * x) * dt>>

(***************************************************************************)
(* Doubles that may be NaN (nodata values) and source files on disk.       *)
(***************************************************************************)
Dbl(k) == [nan |-> FALSE, v |-> k]
NaN == [nan |-> TRUE, v |-> 0]
\* "x <= nodata" on floats: false against NaN
LessOrEqual(x, nd) == (~nd.nan) /\ x <= nd.v

\* A single-band file: its size, its nodata metadata and its samples.
\* Sample (c, r) of every file is 1 + c + r.
SourceFile(w, h, has, nd) == [cols |-> w, rows |-> h, has_nodata |-> has, nodata_read |-> nd]
FileData(f, c, r) == 1 + c + r
FileNodata == {0, 1}
SourceFiles ==
  {SourceFile(w, h, TRUE, nd) : w \in 1..MaxW, h \in 1..MaxH, nd \in FileNodata}
file_image_size(f) == <<f.cols, f.rows>>

\* get_input_image: the nodata value handed back for a file
get_input_image_nodata(f) == IF f.has_nodata THEN Dbl(f.nodata_read) ELSE NaN
\* images[i] = create_mask_less_or_equal(temp, nodata)
create_mask_less_or_equal(f, nd) ==
  [cols |-> f.cols, rows |-> f.rows,
   pix |-> [p \in (0..(f.cols - 1)) \X (0..(f.rows - 1)) |->
              [valid |-> ~LessOrEqual(FileData(f, p[1], p[2]), nd),
               v |-> FileData(f, p[1], p[2])]]]
InvalidPixel == [valid |-> FALSE, v |-> 0]

(***************************************************************************)
(* compute_line_weights (vw) and centerline_weights3.                      *)
(***************************************************************************)
\* pix = <<col, row>>; centers are rationals, widths integers.
\* (max_dist - dist + tol)/max_dist with tol = 1e-8*max_dist is
\* (max_dist - dist)/max_dist + TOL.
compute_line_weights(pix, horizontal, centers, widths, len) ==
  LET pos == IF horizontal THEN pix[2] ELSE pix[1]
      sec == IF horizontal THEN pix[1] ELSE pix[2]
  IN  IF pos < 0 \/ pos >= len THEN RealZero
      ELSE LET max_dist == Rat(widths[pos], 2)
               dist == RatAbs(RatSub(RatInt(sec), centers[pos]))
           IN  IF RatLeq(max_dist, RatInt(0)) THEN RealZero
               ELSE RealMax(RealZero,
                            Real(RatDiv(RatSub(max_dist, dist), max_dist), RatInt(1)))

\* A buffer in memory (a std::vector, an ImageView): the function held as
\* the table of its values, which is the same function.
Stored(f) == IF f = f THEN f ELSE f
SetMin(S, dflt) == IF S = {} THEN dflt ELSE CHOOSE x \in S : \A y \in S : x <= y
SetMax(S, dflt) == IF S = {} THEN dflt ELSE CHOOSE x \in S : \A y \in S : x >= y

\* inside the valid span of the row or of the column
inner_pixel_either(inner_row, inner_col) == inner_row \/ inner_col

\* line 131
inner_pixel(inner_row, inner_col) == inner_row /\ inner_col

\* the larger of the two line weights
new_weight_max(weight_h, weight_v) == RealMax(weight_h, weight_v)

\* line 137
new_weight(weight_h, weight_v) == RealMin(weight_h, weight_v)

\* img: [cols, rows, pix]; the result is the weight of every pixel of img
\* (roi is left empty by the only caller, so the output box is the image).
centerline_weights3(img, hole_fill_value, border_fill_value) ==
  LET numRows == img.rows
      numCols == img.cols
      Rows == 0..(numRows - 1)
      Cols == 0..(numCols - 1)
      minValInRow == Stored([row \in Rows |-> SetMin({c \in Cols : img.pix[<<c, row>>].valid}, numCols)])
      maxValInRow == Stored([row \in Rows |-> SetMax({c \in Cols : img.pix[<<c, row>>].valid}, 0)])
      minValInCol == Stored([col \in Cols |-> SetMin({r \in Rows : img.pix[<<col, r>>].valid}, numRows)])
      maxValInCol == Stored([col \in Cols |-> SetMax({r \in Rows : img.pix[<<col, r>>].valid}, 0)])
      hCenterLine == [row \in Rows |-> Rat(minValInRow[row] + maxValInRow[row], 2)]
      hMaxDistArray == [row \in Rows |-> Max2(maxValInRow[row] - minValInRow[row], 0)]
      vCenterLine == [col \in Cols |-> Rat(minValInCol[col] + maxValInCol[col], 2)]
      vMaxDistArray == [col \in Cols |-> Max2(maxValInCol[col] - minValInCol[col], 0)]
  IN  [p \in Cols \X Rows |->
        LET col == p[1]
            row == p[2]
            inner_row == row >= minValInCol[col] /\ row <= maxValInCol[col]
            inner_col == col >= minValInRow[row] /\ col <= maxValInRow[row]
        IN  IF img.pix[p].valid
            THEN new_weight(compute_line_weights(p, TRUE, hCenterLine, hMaxDistArray, numRows),
                            compute_line_weights(p, FALSE, vCenterLine, vMaxDistArray, numCols))
            ELSE IF inner_pixel(inner_row, inner_col) THEN RealInt(hole_fill_value)
                 ELSE RealInt(border_fill_value)]

(***************************************************************************)
(* compute_all_image_positions: the layout as a record                     *)
(*   [transforms, bboxes, output_bbox, last_transform].                    *)
(***************************************************************************)
\* compute_transformed_bbox_fast(BBox2i, tf): the BBox2f grown over the
\* forward images of the pixels on the edge of the box
compute_transformed_bbox_fast(b, tf) ==
  LET edge == {p \in BBoxPixels(b) : p[1] \in {b.minx, b.maxx - 1} \/ p[2] \in {b.miny, b.maxy - 1}}
      pts == {Forward(tf, p) : p \in edge}
      xs == {q[1] : q \in pts}
      ys == {q[2] : q \in pts}
  IN  IF pts = {} THEN EmptyBBox
      ELSE BBox(SetMin(xs, 0), SetMin(ys, 0), SetMax(xs, 0), SetMax(ys, 0))

\* lines 329-349: image 0
LayoutFirst(file0) ==
  LET image_size == file_image_size(file0)
      output_bbox == BBoxGrow(BBoxGrow(EmptyBBox, <<0, 0>>), image_size)
  IN  [transforms |-> <<AffineTransform(Mat(1, 0, 0, 1, 0, 0))>>,
       bboxes |-> <<output_bbox>>,
       output_bbox |-> output_bbox,
       last_transform |-> identity_matrix]

\* the product taken in the other order
ChainTransform_swapped(last_transform, relative_transform) ==
  MatMul(relative_transform, last_transform)

\* line 362: chain from the last transform
ChainTransform(last_transform, relative_transform) ==
  MatMul(last_transform, relative_transform)

\* lines 356-403: one pass of the loop, given the fitted relative transform
\* (the inverse of lines 374-381 is computed and never used)
LayoutNext(lay, file, relative_transform) ==
  LET image_size == file_image_size(file)
      absolute_transform == ChainTransform(lay.last_transform, relative_transform)
      tf == AffineTransform(absolute_transform)
      new_bot_right_corner == Forward(tf, image_size)
      output_bbox == BBoxGrow(lay.output_bbox, new_bot_right_corner)
      this_bbox == BBoxCrop(BBoxExpand(compute_transformed_bbox_fast(
                              BBox(0, 0, image_size[1], image_size[2]), tf), 1),
                            output_bbox)
  IN  [transforms |-> Append(lay.transforms, tf),
       bboxes |-> Append(lay.bboxes, this_bbox),
       output_bbox |-> output_bbox,
       last_transform |-> absolute_transform]

(***************************************************************************)
(* ImageMosaicView: [images, transforms, bboxes, blend_radius,             *)
(*                   output_image_size, output_nodata_value].              *)
(***************************************************************************)
\* crop(transform(m_images[i], tf, ZeroEdgeExtension, Bilinear), box):
\* sample (c, r) of the crop is the source pixel under canvas point
\* box.min + (c, r), and an invalid zero pixel outside the source.
TransInput(img, tf, box) ==
  [cols |-> BBoxWidth(box), rows |-> BBoxHeight(box),
   pix |-> Stored([p \in (0..(BBoxWidth(box) - 1)) \X (0..(BBoxHeight(box) - 1)) |->
              LET src == Reverse(tf, <<p[1] + box.minx, p[2] + box.miny>>)
              IN  IF src[1] >= 0 /\ src[1] < img.cols /\ src[2] >= 0 /\ src[2] < img.rows
                  THEN img.pix[src] ELSE InvalidPixel])]

\* lines 518-521
Cutoff(intersect, blend_radius) ==
  LET dist == Rat(Min2(BBoxHeight(intersect), BBoxWidth(intersect)), 2)
      denom == RatAdd(dist, RatInt(blend_radius))
  IN  RatDiv(RatInt(blend_radius), denom)

\* the weights left as they are
ClampWeights_off(input_weights, cutoff) == input_weights

\* lines 525-530
ClampWeights(input_weights, cutoff) ==
  [p \in DOMAIN input_weights |->
     IF RealLess(Real(cutoff, RatInt(0)), input_weights[p])
     THEN Real(cutoff, RatInt(0)) ELSE input_weights[p]]

\* lines 478-530 for image i: the crop and its clamped weights
ImagePiece(view, i, bbox) ==
  LET intersect == BBoxCrop(view.bboxes[i], bbox)
      expanded_intersect == BBoxExpand(intersect, view.blend_radius)
      trans_input == TransInput(view.images[i], view.transforms[i], expanded_intersect)
      cutoff == Cutoff(intersect, view.blend_radius)
  IN  [intersect |-> intersect,
       tile_bbox |-> BBoxShift(intersect, <<bbox.minx, bbox.miny>>),
       trans_input |-> trans_input,
       cutoff |-> cutoff,
       input_weights |->
         Stored(ClampWeights(Stored(centerline_weights3(trans_input, 0, -1)), cutoff))]

\* lines 551-555 for one output pixel: acc = [tile, weights]
Accumulate(acc, value, weight) ==
  [tile |-> IF acc.weights = RealZero
            THEN [nan |-> FALSE, x |-> RealScale(value, weight)]
            ELSE [nan |-> acc.tile.nan, x |-> RealAdd(acc.tile.x, RealScale(value, weight))],
   weights |-> RealAdd(acc.weights, weight)]

\* lines 539-558: paste the piece of one image into the tile
PastePiece(piece, blend_radius, st) ==
  [o \in DOMAIN st |->
     LET c == o[1] - piece.tile_bbox.minx
         r == o[2] - piece.tile_bbox.miny
     IN  IF c >= 0 /\ c < BBoxWidth(piece.intersect) /\ r >= 0 /\ r < BBoxHeight(piece.intersect)
         THEN LET weight == piece.input_weights[<<c + blend_radius, r + blend_radius>>]
                  pixel == piece.trans_input.pix[<<c + blend_radius, r + blend_radius>>]
              IN  IF pixel.valid THEN Accumulate(st[o], pixel.v, weight) ELSE st[o]
         ELSE st[o]]

RECURSIVE PasteImages(_, _, _, _)
PasteImages(view, i, bbox, st) ==
  IF i > Len(view.images) THEN st
  ELSE PasteImages(view, i + 1, bbox,
         IF ~BBoxIntersects(view.bboxes[i], bbox) THEN st
         ELSE Stored(PastePiece(ImagePiece(view, i, bbox), view.blend_radius, st)))

\* lines 567-573 for one output pixel
Normalize(acc) ==
  IF RealLess(RealZero, acc.weights)
  THEN [nan |-> acc.tile.nan, v |-> RealQuot(acc.tile.x, acc.weights)]
  ELSE [nan |-> acc.tile.nan, v |-> acc.tile.x.r]

\* a tile that starts at zero
FillValue_zero(nd) == [nan |-> FALSE, x |-> RealZero]

\* fill(tile, m_output_nodata_value); fill(weights, 0)
FillValue(nd) == [nan |-> nd.nan, x |-> RealInt(nd.v)]
TilePixel(nd) == [nan |-> nd.nan, v |-> RatInt(nd.v)]

\* prerasterize(bbox): the finished tile, indexed by canvas pixel
prerasterize(view, bbox) ==
  LET local == (0..(BBoxWidth(bbox) - 1)) \X (0..(BBoxHeight(bbox) - 1))
      st0 == [o \in local |-> [tile |-> FillValue(view.output_nodata_value), weights |-> RealZero]]
      st == PasteImages(view, 1, bbox, st0)
  IN  [p \in BBoxPixels(bbox) |-> Normalize(st[<<p[1] - bbox.minx, p[2] - bbox.miny>>])]

\* What image i adds to the tile: for every canvas pixel of its
\* intersection that it has a valid sample for, the value and the weight.
Contribution(view, i, bbox) ==
  LET piece == ImagePiece(view, i, bbox)
      R == view.blend_radius
      At(p) == <<p[1] - piece.intersect.minx + R, p[2] - piece.intersect.miny + R>>
      valid == {p \in BBoxPixels(piece.intersect) : piece.trans_input.pix[At(p)].valid}
  IN  [p \in valid |-> [value |-> piece.trans_input.pix[At(p)].v,
                        weight |-> piece.input_weights[At(p)]]]
Intersecting(view, bbox) ==
  {i \in 1..Len(view.images) : BBoxIntersects(view.bboxes[i], bbox)}

(***************************************************************************)
(* The program: main() and what it calls.                                  *)
(***************************************************************************)
VARIABLES
  opt,                  \* Options
  pc,                   \* where main() is
  error,                \* message of the exception that ended the run, or ""
  lay,                  \* transforms, bboxes, output_bbox, last_transform
  i,                    \* loop index of compute_all_image_positions
  output_image_size,
  opened,               \* indices of the files opened so far, in order
  aligner_calls,        \* pairs handed to affine_ip_matching, in order
  relative_transforms,  \* transforms returned by affine_ip_matching, in order
  view,                 \* the ImageMosaicView, once constructed
  tiles,                \* tiles rasterized so far: records [bbox, pix]
  written,              \* the output file is complete
  img,                  \* the image handed to centerline_weights3 on its own
  weights               \* and the weights it filled in

vars == <<opt, pc, error, lay, i, output_image_size, opened, aligner_calls,
          relative_transforms, view, tiles, written, img, weights>>

SupportedTypes == {"Float32", "Byte", "UInt16", "Int16", "UInt32", "Int32"}
TILE_MULTIPLE == 16

\* lines 48-52
fix_tile_multiple(size) ==
  IF size % TILE_MULTIPLE # 0 THEN ((size \div TILE_MULTIPLE) + 1) * TILE_MULTIPLE ELSE size

\* what RANSAC may return for a pair: the shortest and the longest
\* translation, and a shear
Translate(tx, ty) == Mat(1, 0, 0, 1, tx, ty)
RelTransforms ==
  {Translate(1, 0), Translate(MaxShift, 0), Mat(1, 0, 1, 1, MaxShift, 0)}

NoLayout ==
  [transforms |-> <<>>, bboxes |-> <<>>, output_bbox |-> EmptyBBox,
   last_transform |-> identity_matrix]
NoView == [images |-> <<>>]
NoImage == [cols |-> 0, rows |-> 0, pix |-> <<>>]
NoWeights == <<>>

Abort(msg) ==
  /\ pc' = "aborted"
  /\ error' = msg

\* lines 683-703, after the command line is parsed
HandleArguments ==
  /\ pc = "handle_arguments"
  /\ IF opt.image_files = <<>>
     THEN Abort("No images to mosaic.") /\ UNCHANGED opt
     ELSE IF opt.output_image = ""
     THEN Abort("Missing output image name.") /\ UNCHANGED opt
     ELSE LET blend_radius == IF opt.blend_radius = 0 THEN opt.overlap_width
                              ELSE opt.blend_radius
              min_tile_size == 2 * blend_radius
              ts == opt.raster_tile_size
          IN  \/ /\ opt' = [opt EXCEPT
                       !.blend_radius = blend_radius,
                       !.raster_tile_size =
                          <<IF ts[1] < min_tile_size THEN fix_tile_multiple(min_tile_size) ELSE ts[1],
                            IF ts[2] < min_tile_size THEN fix_tile_multiple(min_tile_size) ELSE ts[2]>>]
                 /\ pc' = "first_position"
                 /\ UNCHANGED error
              \* fix_tile_multiple is declared int and returns nothing:
              \* a call of it may also end the run
              \/ /\ ts[1] < min_tile_size \/ ts[2] < min_tile_size
                 /\ Abort("fix_tile_multiple returns no value")
                 /\ UNCHANGED opt
  /\ UNCHANGED <<img, weights, lay, i, output_image_size, opened, aligner_calls,
                 relative_transforms, view, tiles, written>>

\* lines 324-349: image 0
FirstPosition ==
  /\ pc = "first_position"
  /\ opened' = Append(opened, 0)
  /\ lay' = LayoutFirst(opt.image_files[1])
  /\ i' = 1
  /\ pc' = "positions"
  /\ UNCHANGED <<img, weights, opt, error, output_image_size, aligner_calls,
                 relative_transforms, view, tiles, written>>

\* lines 297-303: the search regions of a pair
Roi1(size1) ==
  IF opt.orientation = "horizontal"
  THEN BBox(size1[1] - opt.overlap_width, 0, size1[1], size1[2]) ELSE EmptyBBox
Roi2(size2) ==
  IF opt.orientation = "horizontal"
  THEN BBox(0, 0, opt.overlap_width, size2[2]) ELSE EmptyBBox
RoisEmpty ==
  \/ BBoxEmpty(Roi1(file_image_size(opt.image_files[i])))
  \/ BBoxEmpty(Roi2(file_image_size(opt.image_files[i + 1])))

\* lines 292-309: compute_relative_transform throws on empty regions
OrientationError ==
  /\ pc = "positions" /\ i < Len(opt.image_files)
  /\ RoisEmpty
  /\ opened' = opened \o <<i - 1, i>>
  /\ Abort("Unrecognized image orientation!")
  /\ UNCHANGED <<img, weights, opt, lay, i, output_image_size, aligner_calls,
                 relative_transforms, view, tiles, written>>

\* lines 353-403 with a fitted transform out of the set fits
AlignPairWith(fits) ==
  /\ pc = "positions" /\ i < Len(opt.image_files)
  /\ ~RoisEmpty
  /\ \E tf \in fits :
       /\ relative_transforms' = Append(relative_transforms, tf)
       /\ lay' = LayoutNext(lay, opt.image_files[i + 1], tf)
  /\ opened' = opened \o <<i - 1, i, i - 1, i, i>>
  /\ aligner_calls' = Append(aligner_calls, <<i - 1, i>>)
  /\ i' = i + 1
  /\ UNCHANGED <<img, weights, opt, pc, error, output_image_size, view, tiles, written>>

AlignPair == AlignPairWith(RelTransforms)

\* the failure is reported but the loop goes on with an identity transform
AlignPairFails_continue ==
  /\ pc = "positions" /\ i < Len(opt.image_files)
  /\ ~RoisEmpty
  /\ opened' = opened \o <<i - 1, i, i - 1, i, i>>
  /\ aligner_calls' = Append(aligner_calls, <<i - 1, i>>)
  /\ error' = "Automatic Alignment failed in RANSAC fit!"
  /\ relative_transforms' = Append(relative_transforms, identity_matrix)
  /\ lay' = LayoutNext(lay, opt.image_files[i + 1], identity_matrix)
  /\ i' = i + 1
  /\ UNCHANGED <<img, weights, opt, pc, output_image_size, view, tiles, written>>

\* lines 257-270: no matches, or RANSAC finds no model
AlignPairFails ==
  /\ pc = "positions" /\ i < Len(opt.image_files)
  /\ ~RoisEmpty
  /\ opened' = opened \o <<i - 1, i, i - 1, i>>
  /\ aligner_calls' = Append(aligner_calls, <<i - 1, i>>)
  /\ Abort("Automatic Alignment failed in RANSAC fit!")
  /\ UNCHANGED <<img, weights, opt, lay, i, output_image_size, relative_transforms, view,
                 tiles, written>>

\* line 414
LastPosition ==
  /\ pc = "positions" /\ i = Len(opt.image_files)
  /\ output_image_size' = BBoxSize(lay.output_bbox)
  /\ pc' = "load"
  /\ UNCHANGED <<img, weights, opt, error, lay, i, opened, aligner_calls,
                 relative_transforms, view, tiles, written>>

\* lines 725-746
MakeView(files, layout, size, blend_radius, nd) ==
  [images |-> [k \in 1..Len(files) |->
                 create_mask_less_or_equal(files[k], get_input_image_nodata(files[k]))],
   transforms |-> layout.transforms,
   bboxes |-> layout.bboxes,
   blend_radius |-> blend_radius,
   output_image_size |-> size,
   output_nodata_value |-> nd]

LoadImages ==
  /\ pc = "load"
  /\ opened' = opened \o [k \in 1..Len(opt.image_files) |-> k - 1]
  /\ view' = MakeView(opt.image_files, lay, output_image_size, opt.blend_radius,
                      opt.output_nodata_value)
  /\ pc' = "write"
  /\ UNCHANGED <<img, weights, opt, error, lay, i, output_image_size, aligner_calls,
                 relative_transforms, tiles, written>>

\* lines 603-638: the writer is only called for a supported type
WriteSelectedImageType ==
  /\ pc = "write"
  /\ IF opt.output_type \in SupportedTypes
     THEN pc' = "render" /\ UNCHANGED error
     ELSE Abort("Unsupported output type")
  /\ UNCHANGED <<img, weights, opt, lay, i, output_image_size, opened, aligner_calls,
                 relative_transforms, view, tiles, written>>

\* the blocks block_write_gdal_image asks the view for
CeilDiv(a, b) == (a + b - 1) \div b
TileGrid(size, ts) ==
  {BBox(kx * ts[1], ky * ts[2],
        Min2((kx + 1) * ts[1], size[1]), Min2((ky + 1) * ts[2], size[2])) :
     kx \in 0..(CeilDiv(size[1], ts[1]) - 1), ky \in 0..(CeilDiv(size[2], ts[2]) - 1)}
Rendered == {t.bbox : t \in tiles}

\* the box of every image is cropped to the block in place, not in a copy
RenderTile_crops_in_place ==
  /\ pc = "render"
  /\ \E b \in TileGrid(output_image_size, opt.raster_tile_size) :
       /\ tiles' = tiles \cup {[bbox |-> b, pix |-> prerasterize(view, b)]}
       /\ view' = [view EXCEPT !.bboxes =
                     [k \in DOMAIN view.bboxes |->
                        IF BBoxIntersects(view.bboxes[k], b)
                        THEN BBoxCrop(view.bboxes[k], b) ELSE view.bboxes[k]]]
  /\ UNCHANGED <<img, weights, opt, pc, error, lay, i, output_image_size, opened,
                 aligner_calls, relative_transforms, written>>

\* rasterize(dest, bbox) for one block, by any worker at any time: blocks
\* are taken in no fixed order and a block may be asked for again
RenderTile ==
  /\ pc = "render"
  /\ \E b \in TileGrid(output_image_size, opt.raster_tile_size) :
       tiles' = tiles \cup {[bbox |-> b, pix |-> prerasterize(view, b)]}
  /\ UNCHANGED <<img, weights, opt, pc, error, lay, i, output_image_size, opened,
                 aligner_calls, relative_transforms, view, written>>

FinishWrite ==
  /\ pc = "render"
  /\ TileGrid(output_image_size, opt.raster_tile_size) \subseteq Rendered
  /\ written' = TRUE
  /\ pc' = "done"
  /\ UNCHANGED <<img, weights, opt, error, lay, i, output_image_size, opened,
                 aligner_calls, relative_transforms, view, tiles>>

\* Inputs of a run: strips of up to MaxImages frames of one camera, so of
\* one size, in two widths, and every option that the checks of the program
\* look at.
PipelineFiles ==
  {f \in SourceFiles : f.cols \in {MaxShift + 1, MaxShift + 2} /\ f.rows = MaxH - 1
                        /\ f.nodata_read = 0}
Strips == {[k \in 1..n |-> f] : n \in 0..MaxImages, f \in PipelineFiles}

Options(files, orientation, output_image, output_type, overlap, radius, ts, has_out, out_nd) ==
  [image_files |-> files, orientation |-> orientation, output_image |-> output_image,
   output_type |-> output_type, overlap_width |-> overlap, blend_radius |-> radius,
   raster_tile_size |-> ts,
   has_input_nodata_value |-> FALSE, input_nodata_value |-> NaN,
   has_output_nodata_value |-> has_out,
   output_nodata_value |-> IF has_out THEN out_nd ELSE NaN]

Init ==
  /\ \E files \in Strips,
        orientation \in {"horizontal", "vertical"},
        output_image \in {"", "out.tif"},
        output_type \in {"Float32", "Float64"},
        radius \in {0, MaxRadius},
        ts \in {<<6, 16>>},
        has_out \in BOOLEAN :
       opt = Options(files, orientation, output_image, output_type, MaxShift,
                     radius, ts, has_out, Dbl(-1))
  /\ pc = "handle_arguments"
  /\ error = ""
  /\ lay = NoLayout
  /\ i = 0
  /\ output_image_size = <<0, 0>>
  /\ opened = <<>>
  /\ aligner_calls = <<>>
  /\ relative_transforms = <<>>
  /\ view = NoView
  /\ tiles = {}
  /\ written = FALSE
  /\ img = NoImage
  /\ weights = NoWeights

Next ==
  \/ HandleArguments
  \/ FirstPosition
  \/ OrientationError
  \/ AlignPair
  \/ AlignPairFails
  \/ LastPosition
  \/ LoadImages
  \/ WriteSelectedImageType
  \/ RenderTile
  \/ FinishWrite

Spec == Init /\ [][Next]_vars

(***************************************************************************)
(* The mosaic view on its own: a view built from any short strip of files  *)
(* and asked for any rectangle of the canvas.                              *)
(***************************************************************************)
MaxRenderImages == 2
MaxTile == 3

RECURSIVE LayoutAll(_, _, _)
LayoutAll(files, rels, k) ==
  IF k = 1 THEN LayoutFirst(files[1])
  ELSE LayoutNext(LayoutAll(files, rels, k - 1), files[k], rels[k - 1])

\* the largest file, a narrower one, a one-row one, and the largest one with
\* its first sample invalid
RenderFiles ==
  {SourceFile(MaxW, MaxH, TRUE, 0), SourceFile(MaxW - 1, MaxH, TRUE, 0),
   SourceFile(MaxW, 1, TRUE, 0), SourceFile(MaxW, MaxH, TRUE, 1)}
CanvasBox(size) == BBox(0, 0, size[1], size[2])
\* the blocks a writer with square blocks of t pixels asks for (the last
\* block of a row or column is cut at the canvas edge), and the whole canvas
TileRects(size) ==
  {BBoxCrop(BBox(x0, y0, x0 + t, y0 + t), CanvasBox(size)) :
     <<t, x0, y0>> \in {q \in ((MaxTile - 1)..MaxTile) \X (0..(size[1] - 1)) \X (0..(size[2] - 1)) :
                          q[2] % q[1] = 0 /\ q[3] % q[1] = 0}}
    \cup {CanvasBox(size)}

InitRender ==
  /\ \E n \in 1..MaxRenderImages :
       \E files \in [1..n -> RenderFiles], rels \in [1..(n - 1) -> RelTransforms] :
         /\ opt = Options(files, "horizontal", "out.tif", "Float32", MaxShift,
                          MaxRadius, <<256, 256>>, TRUE, Dbl(-1))
         /\ lay = LayoutAll(files, rels, n)
         /\ relative_transforms = rels
         /\ aligner_calls = [k \in 1..(n - 1) |-> <<k - 1, k>>]
         /\ i = n
  /\ output_image_size = BBoxSize(lay.output_bbox)
  /\ view = MakeView(opt.image_files, lay, output_image_size, opt.blend_radius,
                     opt.output_nodata_value)
  /\ pc = "render"
  /\ error = ""
  /\ opened = <<>>
  /\ tiles = {}
  /\ written = FALSE
  /\ img = NoImage
  /\ weights = NoWeights

\* prerasterize(bbox) for a block of the canvas.  The view keeps nothing
\* between requests, so a behaviour makes one request.
Prerasterize ==
  /\ pc = "render"
  /\ tiles = {}
  /\ \E b \in TileRects(output_image_size) :
       tiles' = {[bbox |-> b, pix |-> prerasterize(view, b)]}
  /\ UNCHANGED <<img, weights, opt, pc, error, lay, i, output_image_size, opened,
                 aligner_calls, relative_transforms, view, written>>

NextRender == Prerasterize

RenderSpec == InitRender /\ [][NextRender]_vars

(***************************************************************************)
(* compute_all_image_positions on its own, for strips of files of either   *)
(* width and fitted transforms that also move an image up or to the left,  *)
(* shear it the other way or turn it by a quarter.                         *)
(***************************************************************************)
WideTransforms ==
  RelTransforms \cup
    {Translate(MaxShift, -1), Translate(-1, 0), Mat(1, 0, -1, 1, MaxShift, 0),
     Mat(0, -1, 1, 0, MaxShift, 0)}

InitLayout ==
  /\ \E n \in 1..MaxImages :
       \E files \in [1..n -> PipelineFiles], orientation \in {"horizontal", "vertical"} :
         opt = Options(files, orientation, "out.tif", "Float32", MaxShift,
                       MaxRadius, <<256, 256>>, FALSE, NaN)
  /\ pc = "first_position"
  /\ error = ""
  /\ lay = NoLayout
  /\ i = 0
  /\ output_image_size = <<0, 0>>
  /\ opened = <<>>
  /\ aligner_calls = <<>>
  /\ relative_transforms = <<>>
  /\ view = NoView
  /\ tiles = {}
  /\ written = FALSE
  /\ img = NoImage
  /\ weights = NoWeights

AlignPairWide == AlignPairWith(WideTransforms)

NextLayout ==
  \/ FirstPosition
  \/ OrientationError
  \/ AlignPairWide
  \/ AlignPairFails
  \/ LastPosition

LayoutSpec == InitLayout /\ [][NextLayout]_vars

(***************************************************************************)
(* handle_arguments on its own, for every requested tile size up to         *)
(* MaxTileSize and every blend radius up to MaxBlend.                       *)
(***************************************************************************)
MaxTileSize == 36
MaxBlend == 9

InitArguments ==
  /\ \E a \in 1..MaxTileSize, radius \in 0..MaxBlend :
       \E b \in {a, MaxTileSize}, overlap \in {MaxShift, MaxBlend} :
         opt = Options(<<SourceFile(MaxW, MaxH, TRUE, 0)>>, "horizontal", "out.tif",
                       "Float32", overlap, radius, <<a, b>>, FALSE, NaN)
  /\ pc = "handle_arguments"
  /\ error = ""
  /\ lay = NoLayout
  /\ i = 0
  /\ output_image_size = <<0, 0>>
  /\ opened = <<>>
  /\ aligner_calls = <<>>
  /\ relative_transforms = <<>>
  /\ view = NoView
  /\ tiles = {}
  /\ written = FALSE
  /\ img = NoImage
  /\ weights = NoWeights

NextArguments == HandleArguments

ArgumentSpec == InitArguments /\ [][NextArguments]_vars

(***************************************************************************)
(* centerline_weights3 on its own: images of MaxW x MaxH whose valid        *)
(* pixels are a rectangle with up to MaxHoles pixels taken out of it, and   *)
(* the default and one other pair of fill values.                           *)
(***************************************************************************)
MaxHoles == 2

RECURSIVE SubsetsUpTo(_, _)
SubsetsUpTo(S, k) ==
  IF k = 0 THEN {{}}
  ELSE LET smaller == SubsetsUpTo(S, k - 1)
       IN  smaller \cup {h \cup {x} : h \in smaller, x \in S}
Rectangles ==
  {BBox(x0, y0, x1, y1) : x0 \in 0..(MaxW - 1), y0 \in 0..(MaxH - 1),
                          x1 \in 1..MaxW, y1 \in 1..MaxH}
MaskedImage(valid) ==
  [cols |-> MaxW, rows |-> MaxH,
   pix |-> [p \in (0..(MaxW - 1)) \X (0..(MaxH - 1)) |->
              IF p \in valid THEN [valid |-> TRUE, v |-> 1] ELSE InvalidPixel]]
FillValues == {<<0, -1>>, <<2, -3>>}

InitWeights ==
  /\ \E b \in Rectangles :
       \E holes \in SubsetsUpTo(BBoxPixels(b), MaxHoles) :
         img = MaskedImage(BBoxPixels(b) \ holes)
  /\ weights = NoWeights
  /\ opt = Options(<<>>, "horizontal", "", "Float32", MaxShift, MaxRadius,
                   <<256, 256>>, FALSE, NaN)
  /\ pc = "weights"
  /\ error = ""
  /\ lay = NoLayout
  /\ i = 0
  /\ output_image_size = <<0, 0>>
  /\ opened = <<>>
  /\ aligner_calls = <<>>
  /\ relative_transforms = <<>>
  /\ view = NoView
  /\ tiles = {}
  /\ written = FALSE

\* centerline_weights3(img, weights, hole_fill_value, border_fill_value)
CenterlineWeights ==
  /\ pc = "weights"
  /\ weights = NoWeights
  /\ \E fill \in FillValues :
       weights' = [hole_fill_value |-> fill[1], border_fill_value |-> fill[2],
                   w |-> centerline_weights3(img, fill[1], fill[2])]
  /\ UNCHANGED <<opt, pc, error, lay, i, output_image_size, opened,
                 aligner_calls, relative_transforms, view, tiles, written, img>>

NextWeights == CenterlineWeights

WeightSpec == InitWeights /\ [][NextWeights]_vars

(***************************************************************************)
(* Properties of the layout and of main().                                 *)
(***************************************************************************)
LayoutDone == pc \in {"load", "write", "render", "done"}
FirstFileBox ==
  BBox(0, 0, opt.image_files[1].cols, opt.image_files[1].rows)
MatOf(tf) == Mat(tf.m00, tf.m01, tf.m10, tf.m11, tf.t0, tf.t1)
RansacFailed == error = "Automatic Alignment failed in RANSAC fit!"

\* C1: once image 0 is placed, its transform is the identity and its canvas
\* box is exactly its extent: origin (0,0), width and height of the file.
C1_FirstImageBox ==
  Len(lay.transforms) >= 1 =>
    /\ lay.transforms[1] = AffineTransform(identity_matrix)
    /\ lay.bboxes[1] = FirstFileBox

\* C2: the transform of image k is the transform of image k-1 times the
\* transform fitted for the pair (k-1, k), and the aligner has only been
\* given consecutive pairs, in increasing order.
C2_Chaining ==
  /\ \A k \in 2..Len(lay.transforms) :
       lay.transforms[k] =
         AffineTransform(MatMul(MatOf(lay.transforms[k - 1]), relative_transforms[k - 1]))
  /\ \A k \in 1..Len(aligner_calls) : aligner_calls[k] = <<k - 1, k>>
  /\ Len(relative_transforms) <= Len(aligner_calls)
  /\ Len(lay.transforms) >= 1 => Len(relative_transforms) = Len(lay.transforms) - 1
C2_Witness ==
  /\ Len(lay.transforms) = 3
  /\ MatMul(relative_transforms[1], relative_transforms[2])
       # MatMul(relative_transforms[2], relative_transforms[1])

\* C3: with one image the aligner is never called and the canvas has the
\* width and height of that image.
C3_SingleImage ==
  (Len(opt.image_files) = 1 /\ LayoutDone) =>
    /\ aligner_calls = <<>>
    /\ output_image_size = file_image_size(opt.image_files[1])

\* C4: with an orientation other than horizontal no file is ever opened and
\* the run never gets to its end.
C4_OrientationRejectedFirst ==
  opt.orientation # "horizontal" => (opened = <<>> /\ pc # "done")

\* C5: with an empty image list, no output name or an unsupported output
\* type, no pair is ever aligned and no tile is ever rendered.
C5_ConfigErrorsBeforeRun ==
  (opt.image_files = <<>> \/ opt.output_image = "" \/ opt.output_type \notin SupportedTypes)
    => (aligner_calls = <<>> /\ tiles = {})

\* C6: after an alignment failure nothing is rendered or written and nothing
\* more happens (no retry); a tile is only ever rendered once every image
\* has its place in the layout.
C6_AbortOnAlignmentFailure ==
  /\ [](RansacFailed => (tiles = {} /\ ~written /\ pc = "aborted"))
  /\ [][RansacFailed => UNCHANGED vars]_vars
  /\ [](tiles # {} => (Len(lay.transforms) = Len(opt.image_files)
                        /\ Len(lay.bboxes) = Len(opt.image_files)))
C6_Witness == RansacFailed /\ Len(aligner_calls) = 2 /\ Len(relative_transforms) = 1

(***************************************************************************)
(* Properties of the mosaic view.                                          *)
(***************************************************************************)
RECURSIVE SumContrib(_, _, _, _)
\* sums of value*weight and of weight at pixel p over the images 1..k
SumContrib(tview, bbox, p, k) ==
  IF k = 0 THEN [vw |-> RealZero, w |-> RealZero, n |-> 0]
  ELSE LET rest == SumContrib(tview, bbox, p, k - 1)
       IN  IF k \in Intersecting(tview, bbox) /\ p \in DOMAIN Contribution(tview, k, bbox)
           THEN LET c == Contribution(tview, k, bbox)[p]
                IN  [vw |-> RealAdd(rest.vw, RealScale(c.value, c.weight)),
                     w |-> RealAdd(rest.w, c.weight), n |-> rest.n + 1]
           ELSE rest

\* C7: every pixel of a finished tile with nonzero accumulated weight is the
\* weighted average of its valid contributors, and every pixel with zero
\* accumulated weight is the output nodata value.
C7_WeightedAverage ==
  \A t \in tiles : \A p \in DOMAIN t.pix :
    LET s == SumContrib(view, t.bbox, p, Len(view.images))
    IN  IF s.w # RealZero
        THEN t.pix[p] = [nan |-> FALSE, v |-> RealQuot(s.vw, s.w)]
        ELSE t.pix[p] = TilePixel(view.output_nodata_value)

\* C8: a tile that intersects no image box is all output nodata.
C8_EmptyTileIsNodata ==
  \A t \in tiles :
    Intersecting(view, t.bbox) = {} =>
      \A p \in BBoxPixels(t.bbox) : t.pix[p] = TilePixel(view.output_nodata_value)
C8_Witness ==
  \E t \in tiles : Intersecting(view, t.bbox) = {} /\ BBoxPixels(t.bbox) # {}

\* C9: no image contributes to a pixel with a weight above
\* blend_radius / (min(intersection height, width)/2 + blend_radius).
WeightCeiling(tview, k, bbox) ==
  LET x == BBoxCrop(tview.bboxes[k], bbox)
      m == Min2(BBoxHeight(x), BBoxWidth(x))
  IN  Rat(2 * tview.blend_radius, m + 2 * tview.blend_radius)
C9_WeightCeiling ==
  \A t \in tiles : \A k \in Intersecting(view, t.bbox) :
    LET c == Contribution(view, k, t.bbox)
    IN  \A p \in DOMAIN c :
          ~RealLess(Real(WeightCeiling(view, k, t.bbox), RatInt(0)), c[p].weight)
C9_Witness ==
  \E t \in tiles : \E k \in Intersecting(view, t.bbox) :
    LET c == Contribution(view, k, t.bbox)
        raw == centerline_weights3(
                 TransInput(view.images[k], view.transforms[k],
                            BBoxExpand(BBoxCrop(view.bboxes[k], t.bbox), view.blend_radius)),
                 0, -1)
    IN  \E p \in DOMAIN c :
          /\ c[p].weight = Real(WeightCeiling(view, k, t.bbox), RatInt(0))
          /\ \E q \in DOMAIN raw : RealLess(c[p].weight, raw[q])

\* the padded crop of image k for this tile holds every sample of the image
WholeImageInCrop(tview, k, bbox) ==
  LET image == tview.images[k]
      foot == compute_transformed_bbox_fast(BBox(0, 0, image.cols, image.rows), tview.transforms[k])
      crop == BBoxExpand(BBoxCrop(tview.bboxes[k], bbox), tview.blend_radius)
  IN  /\ crop.minx <= foot.minx /\ crop.miny <= foot.miny
      /\ foot.maxx < crop.maxx /\ foot.maxy < crop.maxy

\* C10: a pixel has the same value in any tile as in the one tile that is
\* the whole canvas, wherever the padded crops of the tile cut no image.
C10_TileIndependence ==
  \A t \in tiles :
    (\A k \in Intersecting(view, t.bbox) : WholeImageInCrop(view, k, t.bbox)) =>
      LET full == prerasterize(view, CanvasBox(view.output_image_size))
      IN  \A p \in BBoxPixels(t.bbox) : t.pix[p] = full[p]

\* the view as main() constructed it
PristineView ==
  MakeView(opt.image_files, lay, output_image_size, opt.blend_radius,
           opt.output_nodata_value)

WeightsDone == weights # NoWeights
ValidAt(c, r) ==
  c \in 0..(img.cols - 1) /\ r \in 0..(img.rows - 1) /\ img.pix[<<c, r>>].valid
\* valid pixels on both sides in the row and on both sides in the column
InteriorHole(p) ==
  /\ \E c \in 0..(p[1] - 1) : ValidAt(c, p[2])
  /\ \E c \in (p[1] + 1)..(img.cols - 1) : ValidAt(c, p[2])
  /\ \E r \in 0..(p[2] - 1) : ValidAt(p[1], r)
  /\ \E r \in (p[2] + 1)..(img.rows - 1) : ValidAt(p[1], r)

\* C12: an invalid pixel with valid pixels on both sides in its row and on
\* both sides in its column gets the hole fill value, and every other
\* invalid pixel gets the border fill value.
C12_HoleAndBorderFill ==
  WeightsDone =>
    \A p \in DOMAIN img.pix :
      ~img.pix[p].valid =>
        weights.w[p] = IF InteriorHole(p) THEN RealInt(weights.hole_fill_value)
                       ELSE RealInt(weights.border_fill_value)
\* a hole, and a pixel between valid pixels of its row only
C12_Witness ==
  /\ WeightsDone
  /\ \E p \in DOMAIN img.pix : ~img.pix[p].valid /\ InteriorHole(p)
  /\ \E p \in DOMAIN img.pix :
       /\ ~img.pix[p].valid /\ ~InteriorHole(p)
       /\ \E c \in 0..(p[1] - 1) : ValidAt(c, p[2])
       /\ \E c \in (p[1] + 1)..(img.cols - 1) : ValidAt(c, p[2])

\* the valid pixels of img are exactly the pixels of the box b
ValidIsBox(b) ==
  /\ ~BBoxEmpty(b)
  /\ \A p \in DOMAIN img.pix : img.pix[p].valid <=> p \in BBoxPixels(b)
\* 1 - |offset from the middle of lo..hi| / (half of hi - lo), plus TOL,
\* and 0 for a run of one pixel
Confidence(x, lo, hi) ==
  IF hi = lo THEN RealZero
  ELSE Real(RatSub(RatInt(1), Rat(Abs(2 * x - (lo + hi)), hi - lo)), RatInt(1))
\* twice the distance from the middle of lo..hi
Off(x, lo, hi) == Abs(2 * x - (lo + hi))

\* C13: when the valid pixels are a full rectangle, every pixel of it has
\* the smaller of its row and column confidences, the pixels that are not
\* on the edge of the rectangle have a weight above 0, no weight is above
\* that of the pixels nearest the centre, and along a row or a column the
\* weight does not grow with the distance from the centre.
C13_RectangleWeights ==
  WeightsDone =>
    \A b \in Rectangles :
      ValidIsBox(b) =>
        LET x0 == b.minx
            x1 == b.maxx - 1
            y0 == b.miny
            y1 == b.maxy - 1
            w == weights.w
            Centre == {p \in BBoxPixels(b) : Off(p[1], x0, x1) <= 1 /\ Off(p[2], y0, y1) <= 1}
        IN  /\ \A p \in BBoxPixels(b) :
                 w[p] = RealMin(Confidence(p[1], x0, x1), Confidence(p[2], y0, y1))
            /\ \A p \in BBoxPixels(b) :
                 (x0 < p[1] /\ p[1] < x1 /\ y0 < p[2] /\ p[2] < y1) => RealLess(RealZero, w[p])
            /\ \A p \in Centre : \A q \in BBoxPixels(b) : ~RealLess(w[p], w[q])
            /\ \A p, q \in BBoxPixels(b) :
                 \/ (p[2] = q[2] /\ Off(p[1], x0, x1) <= Off(q[1], x0, x1))
                 \/ (p[1] = q[1] /\ Off(p[2], y0, y1) <= Off(q[2], y0, y1))
                 => ~RealLess(w[p], w[q])
\* a full rectangle with a pixel off its edge and off its centre
C13_Witness ==
  /\ WeightsDone
  /\ \E b \in Rectangles :
       /\ ValidIsBox(b)
       /\ \E p, q \in BBoxPixels(b) :
            /\ b.minx < p[1] /\ p[1] < b.maxx - 1 /\ b.miny < p[2] /\ p[2] < b.maxy - 1
            /\ RealLess(RealZero, weights.w[q])
            /\ RealLess(weights.w[q], weights.w[p])

(***************************************************************************)
(* Properties of argument handling.                                        *)
(***************************************************************************)
\* C14: once the arguments are handled, each side of the tile size is above
\* twice the blend radius and a multiple of 16; and fix_tile_multiple gives
\* the smallest multiple of 16 that is not below its argument.
C14_TileSize ==
  /\ pc = "first_position" =>
       \A d \in 1..2 :
         /\ opt.raster_tile_size[d] > 2 * opt.blend_radius
         /\ opt.raster_tile_size[d] % 16 = 0
  /\ \A size \in 0..MaxTileSize :
       /\ fix_tile_multiple(size) % 16 = 0
       /\ fix_tile_multiple(size) >= size
       /\ fix_tile_multiple(size) - 16 < size

(***************************************************************************)
(* Properties of the canvas box and of the boxes of the images.            *)
(***************************************************************************)
\* the four corners of the extent of a file
Corners(f) == {<<0, 0>>, <<f.cols, 0>>, <<0, f.rows>>, <<f.cols, f.rows>>}
\* the point lies in the box or on its edge
Within(b, p) == b.minx <= p[1] /\ p[1] <= b.maxx /\ b.miny <= p[2] /\ p[2] <= b.maxy
BoxContains(outer, inner) ==
  /\ outer.minx <= inner.minx /\ outer.miny <= inner.miny
  /\ inner.maxx <= outer.maxx /\ inner.maxy <= outer.maxy

\* C15: every step of the layout leaves a canvas box that contains the one
\* before it, and once the last image is placed the canvas box holds the
\* four transformed corners of the extent of every image.
C15_CanvasHoldsEveryCorner ==
  /\ [][BBoxEmpty(lay.output_bbox) \/ BoxContains(lay'.output_bbox, lay.output_bbox)]_vars
  /\ [](pc = "load" =>
         \A k \in 1..Len(opt.image_files) : \A c \in Corners(opt.image_files[k]) :
           Within(lay.output_bbox, Forward(lay.transforms[k], c)))

\* C16: once the last image is placed, the box of every image after the
\* first is its extent under its transform, grown by one on every side and
\* cut to the canvas box as it is then, with every image in it.
C16_BoxCutToFinalCanvas ==
  pc = "load" =>
    \A k \in 2..Len(opt.image_files) :
      lay.bboxes[k] =
        BBoxCrop(BBoxExpand(compute_transformed_bbox_fast(
                   BBox(0, 0, opt.image_files[k].cols, opt.image_files[k].rows),
                   lay.transforms[k]), 1),
                 lay.output_bbox)

(***************************************************************************)
(* Properties of the nodata values.                                        *)
(***************************************************************************)
\* lines 727-733: nodata is overwritten by every file, the last one stays
nodata_of_inputs(files) == get_input_image_nodata(files[Len(files)])
\* line 749: the nodata value handed to write_selected_image_type
written_nodata_value == opt.output_nodata_value
\* lines 735-738: the override when there is one, else the value of the inputs
ChosenNodata ==
  IF opt.has_output_nodata_value THEN opt.output_nodata_value
  ELSE nodata_of_inputs(opt.image_files)

\* C17: once the images are loaded, the value that fills a fresh tile and
\* the value handed to the writer are the output nodata override when one
\* was given and the nodata value of the input images otherwise, and are
\* not NaN when the input images declare a nodata value.
C17_NodataSentinel ==
  pc \in {"write", "render", "done"} /\ view # NoView =>
    /\ view.output_nodata_value = ChosenNodata
    /\ written_nodata_value = ChosenNodata
    /\ (\A k \in 1..Len(opt.image_files) : opt.image_files[k].has_nodata)
         => ~view.output_nodata_value.nan

(***************************************************************************)
(* The loading of the images alone, with --input-nodata-value given or     *)
(* not.                                                                    *)
(***************************************************************************)
\* lines 659-660 and 680: the option as parsed into the Options
WithInputNodata(o, has_in, in_nd) ==
  [o EXCEPT !.has_input_nodata_value = has_in,
            !.input_nodata_value = IF has_in THEN in_nd ELSE NaN]
InputNodataValues == {Dbl(1), Dbl(2)}

InitLoad ==
  /\ \E n \in 1..MaxImages : \E f \in SourceFiles :
       \E has_in \in BOOLEAN : \E in_nd \in InputNodataValues :
         LET files == [k \in 1..n |-> f]
             rels == [k \in 1..(n - 1) |-> Translate(MaxShift, 0)]
         IN  /\ opt = WithInputNodata(
                        Options(files, "horizontal", "out.tif", "Float32", MaxShift,
                                MaxRadius, <<256, 256>>, FALSE, NaN),
                        has_in, in_nd)
             /\ lay = LayoutAll(files, rels, n)
             /\ relative_transforms = rels
             /\ aligner_calls = [k \in 1..(n - 1) |-> <<k - 1, k>>]
             /\ i = n
  /\ output_image_size = BBoxSize(lay.output_bbox)
  /\ view = NoView
  /\ pc = "load"
  /\ error = ""
  /\ opened = <<>>
  /\ tiles = {}
  /\ written = FALSE
  /\ img = NoImage
  /\ weights = NoWeights

NextLoad == LoadImages \/ WriteSelectedImageType

LoadSpec == InitLoad /\ [][NextLoad]_vars

\* C18: when --input-nodata-value is given, the pixels of every loaded
\* image that are invalid are exactly those whose sample is less than or
\* equal to the given value, whatever nodata value the file declares.
C18_InputOverrideMasks ==
  pc \in {"write", "render"} /\ opt.has_input_nodata_value =>
    \A k \in 1..Len(opt.image_files) : \A p \in DOMAIN view.images[k].pix :
      view.images[k].pix[p].valid
        = ~LessOrEqual(FileData(opt.image_files[k], p[1], p[2]), opt.input_nodata_value)

====
